---- MODULE Spec2Model ----
(***************************************************************************)
(* Model of api/src/services/text_processing/phonemizer.py:                *)
(*   - the module-level registry `phonemizers` and the top-level           *)
(*     phonemize(text, language), called by several threads (Spec);        *)
(*   - EspeakBackend.phonemize, the ordered rewrite rules applied to the   *)
(*     transcription the external engine returns (PipeSpec).               *)
(*                                                                         *)
(* A Python str is a sequence of characters.  The module parser accepts    *)
(* ASCII only, so every non-ASCII character of the source is written as an *)
(* ASCII name; every ASCII character is itself:                            *)
(*   stress = U+02C8 (primary stress)   long = U+02D0 (length marker)      *)
(*   turned_r = U+0279                  turned_v = U+028C                  *)
(*   small_i = U+026A                   schwa = U+0259                     *)
(*   upsilon = U+028A                   open_o = U+0254                    *)
(*   pal = U+02B2 (superscript j)       belted_l = U+026C                  *)
(*   inv_excl = U+00A1  inv_quest = U+00BF  em_dash = U+2014               *)
(*   ellipsis = U+2026  laquo = U+00AB      raquo = U+00BB                 *)
(***************************************************************************)
EXTENDS Integers, Sequences, FiniteSets, TLC

VARIABLES
    phonemizers,    \* the registry: language code -> backend instance
    pc,             \* per thread: where it is inside phonemize()
    language,       \* per thread: the `language` argument of its call
    created,        \* per thread: the value of create_phonemizer(language)
    ret,            \* per thread: how each of its calls ended, in order
    attempts,       \* per locale: EspeakBackend.__init__ entered
    constructions,  \* per locale: EspeakBackend.__init__ completed
    engine_ok,      \* environment: the external engine can be initialised
    code,           \* PipeSpec: the language code of the call
    self_language,  \* PipeSpec: self.language of the backend instance
    raw,            \* PipeSpec: what self.backend.phonemize([text]) returned
    ps,             \* PipeSpec: the local `ps`, then `result`
    stage           \* PipeSpec: the last statement executed

regvars == <<phonemizers, pc, language, created, ret, attempts,
             constructions, engine_ok>>
pipevars == <<code, self_language, raw, ps, stage>>
vars == <<phonemizers, pc, language, created, ret, attempts,
          constructions, engine_ok, code, self_language, raw, ps, stage>>

----------------------------------------------------------------------------
(* Bounds *)

MaxCalls == 3
MaxFrags == 3

\* two caller threads
Threads == {1, 2}

----------------------------------------------------------------------------
(* Characters and literals of the source *)

STRESS == "stress"
LONG == "long"
TURNED_R == "turned_r"

LowercaseAZ ==
    {"a", "b", "c", "d", "e", "f", "g", "h", "i", "j", "k", "l", "m",
     "n", "o", "p", "q", "r", "s", "t", "u", "v", "w", "x", "y", "z"}

\* str.strip() without argument removes the characters str.isspace() accepts
Whitespace ==
    {" ", "\t", "\n", "\r", "\f", "vt", "fs", "gs", "rs", "us", "nel", "nbsp"}

\* "k@k'o:Ro&" -> "k'o&k@Ro&" and its British form (line 75)
KOKORO_US_RAW ==
    <<"k", "schwa", "k", STRESS, "o", LONG, TURNED_R, "o", "upsilon">>
KOKORO_US_FIX ==
    <<"k", STRESS, "o", "upsilon", "k", "schwa", TURNED_R, "o", "upsilon">>
KOKORO_GB_RAW ==
    <<"k", "schwa", "k", STRESS, "open_o", LONG, TURNED_R, "schwa", "upsilon">>
KOKORO_GB_FIX ==
    <<"k", STRESS, "schwa", "upsilon", "k", "schwa", TURNED_R, "schwa", "upsilon">>

\* the lookahead literal of line 77 and its lookbehind class [a-z turned_r long]
HUNDRED == <<"h", STRESS, "turned_v", "n", "d", TURNED_R, "small_i", "d">>
Lookbehind == LowercaseAZ \cup {TURNED_R, LONG}

\* the lookahead class of line 78; its last member is the space
Lookahead ==
    {";", ":", ",", ".", "!", "?", "inv_excl", "inv_quest", "em_dash",
     "ellipsis", "\"", "laquo", "raquo", " "}

\* the lookbehind literal of line 82
NINE == <<"n", STRESS, "a", "small_i", "n">>

----------------------------------------------------------------------------
(* str and re primitives, computed as CPython computes them *)

MatchAt(s, p, lit) ==
    /\ p >= 1
    /\ p + Len(lit) - 1 <= Len(s)
    /\ SubSeq(s, p, p + Len(lit) - 1) = lit

\* str.replace(old, new): leftmost non-overlapping occurrences, old non-empty
RECURSIVE ReplaceFrom(_, _, _, _)
ReplaceFrom(s, p, old, new) ==
    IF p > Len(s) THEN <<>>
    ELSE IF MatchAt(s, p, old)
         THEN new \o ReplaceFrom(s, p + Len(old), old, new)
         ELSE <<s[p]>> \o ReplaceFrom(s, p + 1, old, new)

Replace(s, old, new) == ReplaceFrom(s, 1, old, new)

RECURSIVE LStrip(_)
LStrip(s) ==
    IF s # <<>> /\ Head(s) \in Whitespace THEN LStrip(Tail(s)) ELSE s

RECURSIVE RStrip(_)
RStrip(s) ==
    IF s # <<>> /\ s[Len(s)] \in Whitespace
    THEN RStrip(SubSeq(s, 1, Len(s) - 1))
    ELSE s

\* mutant: lstrip() in place of strip()
Strip_LeftOnly(s) == LStrip(s)

Strip(s) == RStrip(LStrip(s))

\* `$` without re.MULTILINE: the end of the string, or just before a newline
\* that ends it.  p is the position of the next character to read.
AtDollar(s, p) ==
    \/ p = Len(s) + 1
    \/ p = Len(s) /\ s[p] = "\n"

----------------------------------------------------------------------------
(* The rules of EspeakBackend.phonemize, lines 75-84 *)

KnownWords(s) ==
    Replace(Replace(s, KOKORO_US_RAW, KOKORO_US_FIX),
            KOKORO_GB_RAW, KOKORO_GB_FIX)

\* mutant: the rhotic remap is missing
SymbolSubs_NoRhotic(s) ==
    Replace(Replace(Replace(s, <<"pal">>, <<"j">>), <<"x">>, <<"k">>),
            <<"belted_l">>, <<"l">>)

SymbolSubs(s) ==
    Replace(Replace(Replace(Replace(s, <<"pal">>, <<"j">>),
                            <<"r">>, <<TURNED_R>>),
                    <<"x">>, <<"k">>),
            <<"belted_l">>, <<"l">>)

\* (?<=[a-z turned_r long])(?=HUNDRED): an empty match in front of s[p]
BoundaryAt(s, p) ==
    /\ p >= 2
    /\ s[p - 1] \in Lookbehind
    /\ MatchAt(s, p, HUNDRED)

\* mutant: the pattern consumes the first character of the word instead of
\* looking ahead
RECURSIVE SubBoundary_Consuming(_, _)
SubBoundary_Consuming(s, p) ==
    IF p > Len(s) THEN <<>>
    ELSE (IF BoundaryAt(s, p) THEN <<" ">> ELSE <<s[p]>>)
         \o SubBoundary_Consuming(s, p + 1)

\* re.sub with an empty match: the replacement is emitted and the scan moves
\* on by copying the next character
RECURSIVE SubBoundary(_, _)
SubBoundary(s, p) ==
    IF p > Len(s) THEN <<>>
    ELSE (IF BoundaryAt(s, p) THEN <<" ">> ELSE <<>>)
         \o <<s[p]>> \o SubBoundary(s, p + 1)

BoundaryInsertion(s) == SubBoundary(s, 1)

\* mutant: the lookahead lacks the `|$` alternative
TrailingZAt_NoDollar(s, p) ==
    /\ MatchAt(s, p, <<" ", "z">>)
    /\ p + 2 <= Len(s)
    /\ s[p + 2] \in Lookahead

\* ' z(?=[...]|$)': a match of the two characters s[p], s[p+1]
TrailingZAt(s, p) ==
    /\ MatchAt(s, p, <<" ", "z">>)
    /\ \/ p + 2 <= Len(s) /\ s[p + 2] \in Lookahead
       \/ AtDollar(s, p + 2)

RECURSIVE SubTrailingZ(_, _)
SubTrailingZ(s, p) ==
    IF p > Len(s) THEN <<>>
    ELSE IF TrailingZAt(s, p)
         THEN <<"z">> \o SubTrailingZ(s, p + 2)
         ELSE <<s[p]>> \o SubTrailingZ(s, p + 1)

TrailingZ(s) == SubTrailingZ(s, 1)

\* (?<=NINE)ti(?!long): a match of the two characters s[p], s[p+1]
NineTiAt(s, p) ==
    /\ MatchAt(s, p, <<"t", "i">>)
    /\ MatchAt(s, p - Len(NINE), NINE)
    /\ ~(p + 2 <= Len(s) /\ s[p + 2] = LONG)

RECURSIVE SubNineTi(_, _)
SubNineTi(s, p) ==
    IF p > Len(s) THEN <<>>
    ELSE IF NineTiAt(s, p)
         THEN <<"d", "i">> \o SubNineTi(s, p + 2)
         ELSE <<s[p]>> \o SubNineTi(s, p + 1)

\* mutant: the rule runs whatever the language
LanguageRules_Ungated(lang, s) == SubNineTi(s, 1)

\* lines 81-82: the rule runs on the instance whose self.language is "en-us"
LanguageRules(lang, s) ==
    IF lang = "en-us" THEN SubNineTi(s, 1) ELSE s

\* line 72: ps[0] if ps else ""
FirstOrEmpty(out) == IF out # <<>> THEN out[1] ELSE <<>>

\* EspeakBackend.phonemize from the engine's answer on, lines 72-84
EspeakBackend_phonemize(lang, out) ==
    Strip(LanguageRules(lang,
        TrailingZ(BoundaryInsertion(SymbolSubs(KnownWords(FirstOrEmpty(out)))))))

\* create_phonemizer's table, line 97
lang_map == [a |-> "en-us", b |-> "en-gb", z |-> "z"]

Locales == {lang_map[c] : c \in DOMAIN lang_map}

----------------------------------------------------------------------------
(* What the external engine may answer *)

Fragments ==
    { <<" ">>, <<"\n">>, <<"z">>, <<".">>, <<"a">>, <<"r">>, <<LONG>>,
      <<"t", "i">>, <<"pal">>, NINE, HUNDRED, KOKORO_US_RAW, KOKORO_GB_RAW }

RECURSIVE FragStrings(_)
FragStrings(n) ==
    IF n = 0 THEN {<<>>}
    ELSE LET shorter == FragStrings(n - 1)
         IN  shorter \cup {f \o s : f \in Fragments, s \in shorter}

\* the list self.backend.phonemize([text]) returns: empty, or one transcription
EngineAnswers == {<<>>} \cup {<<s>> : s \in FragStrings(MaxFrags)}

----------------------------------------------------------------------------
(* Initial states *)

NoInstance == [language |-> "none", id |-> 0]
NoLanguage == "none"

RegistryInit ==
    /\ phonemizers = <<>>
    /\ pc = [t \in Threads |-> "idle"]
    /\ language = [t \in Threads |-> NoLanguage]
    /\ created = [t \in Threads |-> NoInstance]
    /\ ret = [t \in Threads |-> <<>>]
    /\ attempts = [l \in Locales |-> 0]
    /\ constructions = [l \in Locales |-> 0]
    /\ engine_ok = TRUE

PipeIdle ==
    /\ code = "a"
    /\ self_language = lang_map["a"]
    /\ raw = <<>>
    /\ ps = <<>>
    /\ stage = "idle"

----------------------------------------------------------------------------
(* PipeSpec: one call of EspeakBackend.phonemize, statement by statement,   *)
(* on the instance create_phonemizer(code) built, then line 125.            *)

PipeInit ==
    /\ RegistryInit
    /\ code \in DOMAIN lang_map
    /\ self_language = lang_map[code]
    /\ raw = <<>>
    /\ ps = <<>>
    /\ stage = "start"

PipeStep(from, to, value) ==
    /\ stage = from
    /\ stage' = to
    /\ ps' = value
    /\ UNCHANGED <<code, self_language, raw>>
    /\ UNCHANGED regvars

\* lines 71-72
EngineCall ==
    /\ stage = "start"
    /\ \E out \in EngineAnswers :
          /\ raw' = out
          /\ ps' = FirstOrEmpty(out)
    /\ stage' = "engine"
    /\ UNCHANGED <<code, self_language>>
    /\ UNCHANGED regvars

\* line 75
StepKnownWords == PipeStep("engine", "known_words", KnownWords(ps))
\* line 76
StepSymbolSubs == PipeStep("known_words", "symbol_subs", SymbolSubs(ps))
\* line 77
StepBoundary == PipeStep("symbol_subs", "boundary", BoundaryInsertion(ps))
\* line 78
StepTrailingZ == PipeStep("boundary", "trailing_z", TrailingZ(ps))
\* lines 81-82
StepLanguageRules ==
    PipeStep("trailing_z", "language_rules", LanguageRules(self_language, ps))
\* line 84
StepBackendStrip == PipeStep("language_rules", "backend_strip", Strip(ps))
\* line 125
StepReturn == PipeStep("backend_strip", "returned", Strip(ps))

PipeNext ==
    \/ EngineCall
    \/ StepKnownWords
    \/ StepSymbolSubs
    \/ StepBoundary
    \/ StepTrailingZ
    \/ StepLanguageRules
    \/ StepBackendStrip
    \/ StepReturn

PipeSpec == PipeInit /\ [][PipeNext]_vars

----------------------------------------------------------------------------
(* Spec: threads calling phonemize(text, language), lines 105-125.  The     *)
(* interpreter may switch threads between any two statements, so the test   *)
(* of line 120, the call and the store of line 121 and the call of line 123 *)
(* are separate steps.  `text` only reaches the external engine, whose      *)
(* answer is any of SampleAnswers or an exception.                          *)

\* the language codes callers pass; "q" is not in lang_map
CallCodes == {"a", "b", "q"}

SampleAnswers ==
    { <<>>, << <<"\n">> \o NINE \o <<"t", "i", " ", "z", ".", " ">> >> }

\* mutant: the registry is never consulted
InRegistry_Never(lang, reg) == FALSE

\* line 120: language not in phonemizers
InRegistry(lang, reg) == lang \in DOMAIN reg

\* mutant: an unknown code falls back to the default locale
create_phonemizer_Default(lang, ok, serial) ==
    LET loc == IF lang \in DOMAIN lang_map THEN lang_map[lang] ELSE "en-us"
    IN  IF ok
        THEN [raised |-> "none", attempted |-> {loc},
              instance |-> [language |-> loc, id |-> serial[loc] + 1]]
        ELSE [raised |-> "BackendUnavailable", attempted |-> {loc},
              instance |-> NoInstance]

\* mutant: a failed initialisation is swallowed and the half-built instance
\* is returned
create_phonemizer_Swallow(lang, ok, serial) ==
    IF lang \notin DOMAIN lang_map
    THEN [raised |-> "ValueError", attempted |-> {}, instance |-> NoInstance]
    ELSE [raised |-> "none", attempted |-> {lang_map[lang]},
          instance |-> [language |-> lang_map[lang],
                        id |-> serial[lang_map[lang]] + 1]]

\* lines 87-102 with EspeakBackend.__init__, lines 31-59: what the call does
\* when the engine can (ok) or cannot be initialised; serial tells the new
\* object from every other one of its locale
create_phonemizer(lang, ok, serial) ==
    IF lang \notin DOMAIN lang_map
    THEN [raised |-> "ValueError", attempted |-> {}, instance |-> NoInstance]
    ELSE IF ok
         THEN [raised |-> "none", attempted |-> {lang_map[lang]},
               instance |-> [language |-> lang_map[lang],
                             id |-> serial[lang_map[lang]] + 1]]
         ELSE [raised |-> "BackendUnavailable", attempted |-> {lang_map[lang]},
               instance |-> NoInstance]

\* line 121: phonemizers[language] = <instance>
SetItem(reg, lang, inst) ==
    [c \in DOMAIN reg \cup {lang} |-> IF c = lang THEN inst ELSE reg[c]]

\* calls entered so far, by all threads together
Entered(t) == Len(ret[t]) + (IF pc[t] = "idle" THEN 0 ELSE 1)

\* the call ends, by return or by exception: its outcome goes to the caller
\* and its frame (the local `language`) is gone
Ends(t, kind, value, inst) ==
    /\ ret' = [ret EXCEPT ![t] =
                 Append(@, [kind |-> kind, language |-> language[t],
                            value |-> value, on |-> inst])]
    /\ language' = [language EXCEPT ![t] = NoLanguage]
    /\ pc' = [pc EXCEPT ![t] = "idle"]

\* lines 105-118: the call is entered
Begin(t) ==
    /\ pc[t] = "idle"
    /\ Entered(1) + Entered(2) < MaxCalls
    /\ \E lang \in CallCodes : language' = [language EXCEPT ![t] = lang]
    /\ pc' = [pc EXCEPT ![t] = "check"]
    /\ UNCHANGED <<phonemizers, created, ret, attempts, constructions, engine_ok>>
    /\ UNCHANGED pipevars

\* line 120
Check(t) ==
    /\ pc[t] = "check"
    /\ pc' = [pc EXCEPT ![t] =
                IF InRegistry(language[t], phonemizers) THEN "call" ELSE "create"]
    /\ UNCHANGED <<phonemizers, language, created, ret, attempts, constructions,
                   engine_ok>>
    /\ UNCHANGED pipevars

\* line 121, right-hand side
Create(t) ==
    /\ pc[t] = "create"
    /\ LET r == create_phonemizer(language[t], engine_ok, constructions)
       IN  /\ attempts' =
                 [l \in Locales |->
                     IF l \in r.attempted THEN attempts[l] + 1 ELSE attempts[l]]
           /\ IF r.raised = "none"
              THEN /\ constructions' =
                         [constructions EXCEPT ![r.instance.language] = @ + 1]
                   /\ created' = [created EXCEPT ![t] = r.instance]
                   /\ pc' = [pc EXCEPT ![t] = "store"]
                   /\ UNCHANGED <<ret, language>>
              ELSE /\ Ends(t, r.raised, <<>>, NoInstance)
                   /\ UNCHANGED <<constructions, created>>
    /\ UNCHANGED <<phonemizers, engine_ok>>
    /\ UNCHANGED pipevars

\* line 121, the store
Store(t) ==
    /\ pc[t] = "store"
    /\ phonemizers' = SetItem(phonemizers, language[t], created[t])
    /\ created' = [created EXCEPT ![t] = NoInstance]
    /\ pc' = [pc EXCEPT ![t] = "call"]
    /\ UNCHANGED <<language, ret, attempts, constructions, engine_ok>>
    /\ UNCHANGED pipevars

\* lines 123-125: the instance the registry holds now is called
Call(t) ==
    /\ pc[t] = "call"
    /\ LET inst == phonemizers[language[t]]
       IN  \/ Ends(t, "EngineFailure", <<>>, inst)
           \/ \E out \in SampleAnswers :
                 Ends(t, "ok",
                      Strip(EspeakBackend_phonemize(inst.language, out)), inst)
    /\ UNCHANGED <<phonemizers, created, attempts, constructions, engine_ok>>
    /\ UNCHANGED pipevars

\* the environment: the external engine stops or starts being usable
BreakEngine ==
    /\ engine_ok
    /\ engine_ok' = FALSE
    /\ UNCHANGED <<phonemizers, pc, language, created, ret, attempts, constructions>>
    /\ UNCHANGED pipevars

RepairEngine ==
    /\ ~engine_ok
    /\ engine_ok' = TRUE
    /\ UNCHANGED <<phonemizers, pc, language, created, ret, attempts, constructions>>
    /\ UNCHANGED pipevars

Init == RegistryInit /\ PipeIdle

Next ==
    \/ \E t \in Threads : Begin(t)
    \/ \E t \in Threads : Check(t)
    \/ \E t \in Threads : Create(t)
    \/ \E t \in Threads : Store(t)
    \/ \E t \in Threads : Call(t)
    \/ BreakEngine
    \/ RepairEngine

Spec == Init /\ [][Next]_vars

----------------------------------------------------------------------------
(* Properties of the registry, checked under Spec *)

Last(log) == log[Len(log)]

\* thread t takes a step of its call in this transition
Steps(t) == pc[t] # "idle" /\ pc'[t] # pc[t]

\* thread t's call ends in this transition
Returns(t) == pc[t] # "idle" /\ pc'[t] = "idle" /\ Len(ret'[t]) = Len(ret[t]) + 1

\* C1: concurrent first-use calls for one language construct its backend
\* instance exactly once: no locale is ever constructed a second time.
C1_ConstructedOnce == \A l \in Locales : constructions[l] <= 1

\* C2: a call with a language code outside {a, b, z} raises the
\* unsupported-language error before any engine construction is attempted and
\* leaves the registry as it was: none of its steps changes the registry or
\* starts or completes a construction, it ends with ValueError, and the
\* registry never holds an entry for such a code.
C2_UnsupportedFailsFast ==
    [][\A t \in Threads :
          (Steps(t) /\ language[t] \notin {"a", "b", "z"}) =>
              /\ phonemizers' = phonemizers
              /\ attempts' = attempts
              /\ constructions' = constructions
              /\ created' = created
              /\ language[t] \notin DOMAIN phonemizers
              /\ pc'[t] \in {"create", "idle"}
              /\ pc'[t] = "idle" =>
                    /\ Returns(t)
                    /\ Last(ret'[t]).kind = "ValueError"
                    /\ Last(ret'[t]).language = language[t]]_vars

C2_Witness ==
    \E t \in Threads :
        /\ Len(ret[t]) = 2
        /\ ret[t][1].kind = "ok"
        /\ ret[t][2].kind = "ValueError"
        /\ ret[t][2].language = "q"
        /\ DOMAIN phonemizers = {ret[t][1].language}
        /\ attempts["en-us"] + attempts["en-gb"] + attempts["z"] = 1

\* C5: once the registry holds an instance for a language, no later step
\* removes that entry or replaces it with a different instance.
C5_AppendOnly ==
    [][\A c \in DOMAIN phonemizers :
          /\ c \in DOMAIN phonemizers'
          /\ phonemizers'[c] = phonemizers[c]]_vars

\* C7: when the engine raises during a call for a language whose instance is
\* in the registry, the failure reaches the caller and the step leaves the
\* registry and the instances as they were; a call that finds the entry at
\* line 120 goes on to line 123 without constructing, and every call runs on
\* the instance the registry holds.
C7_EngineFailureKeepsInstance ==
    [][\A t \in Threads :
          /\ (pc[t] = "call" /\ Returns(t)) =>
                /\ Last(ret'[t]).kind \in {"EngineFailure", "ok"}
                /\ Last(ret'[t]).on = phonemizers[language[t]]
                /\ phonemizers' = phonemizers
                /\ constructions' = constructions
                /\ attempts' = attempts
          /\ (pc[t] = "check" /\ Steps(t) /\ language[t] \in DOMAIN phonemizers) =>
                /\ pc'[t] = "call"
                /\ phonemizers' = phonemizers
                /\ constructions' = constructions
                /\ attempts' = attempts]_vars

\* an instance built once serves a call, fails the next and serves the third
C7_Witness ==
    \E t \in Threads :
        /\ Len(ret[t]) = 3
        /\ ret[t][1].kind = "ok"
        /\ ret[t][2].kind = "EngineFailure"
        /\ ret[t][3].kind = "ok"
        /\ ret[t][3].value # <<>>
        /\ ret[t][1].language = "a"
        /\ ret[t][2].language = "a"
        /\ ret[t][3].language = "a"
        /\ ret[t][2].on = ret[t][1].on
        /\ ret[t][3].on = ret[t][1].on
        /\ phonemizers["a"] = ret[t][1].on
        /\ constructions["en-us"] = 1
        /\ attempts["en-us"] = 1

\* C8: a construction that fails leaves the registry without a new entry, and
\* while the engine cannot be initialised every call that reaches line 121
\* for a supported language fails with BackendUnavailable; an entry appears
\* only after a construction for its locale has succeeded, and only a call
\* whose language has an entry returns a transcription.
C8_FailedConstructionNotCached ==
    [][/\ \A t \in Threads :
            /\ (pc[t] = "create" /\ Steps(t) /\ ~engine_ok
                    /\ language[t] \in DOMAIN lang_map) =>
                  /\ Returns(t)
                  /\ Last(ret'[t]).kind = "BackendUnavailable"
                  /\ phonemizers' = phonemizers
                  /\ constructions' = constructions
                  /\ created' = created
            /\ (Returns(t) /\ Last(ret'[t]).kind = "ok") =>
                  language[t] \in DOMAIN phonemizers
       /\ \A c \in DOMAIN phonemizers' :
            /\ c \in DOMAIN lang_map
            /\ constructions[lang_map[c]] >= 1
            /\ phonemizers'[c].language = lang_map[c]
            /\ phonemizers'[c].id \in 1..constructions[lang_map[c]]]_vars

\* two calls for "a" in a row fail on a broken engine and nothing is cached
C8_Witness ==
    \E t \in Threads :
        /\ Len(ret[t]) = 2
        /\ ret[t][1].kind = "BackendUnavailable"
        /\ ret[t][2].kind = "BackendUnavailable"
        /\ ret[t][1].language = "a"
        /\ ret[t][2].language = "a"
        /\ ~engine_ok
        /\ "a" \notin DOMAIN phonemizers
        /\ attempts["en-us"] = 2
        /\ constructions["en-us"] = 0

----------------------------------------------------------------------------
(* Properties of the rewrite rules, checked under PipeSpec.  Each rule is   *)
(* compared with a description of its result by the set of positions it     *)
(* rewrites, not with the scan that computes it.                             *)

\* s without the characters at the positions in P
Without(s, P) ==
    LET kept == (1..Len(s)) \ P
    IN  [i \in 1..Cardinality(kept) |->
            s[CHOOSE j \in kept : Cardinality({k \in kept : k <= j}) = i]]

Count(s, c) == Cardinality({i \in 1..Len(s) : s[i] = c})

Occurs(s, p, lit) ==
    /\ p >= 1
    /\ p + Len(lit) - 1 <= Len(s)
    /\ \A i \in 1..Len(lit) : s[p + i - 1] = lit[i]

\* the punctuation marks the trailing-z rule lists
ListedPunctuation ==
    {";", ":", ",", ".", "!", "?", "inv_excl", "inv_quest", "em_dash",
     "ellipsis", "\"", "laquo", "raquo"}

SpacesAfterZ(s) ==
    {p \in 2..Len(s) :
        /\ s[p - 1] = "z"
        /\ s[p] = " "
        /\ (p = Len(s) \/ s[p + 1] \in ListedPunctuation)}

SpacesBeforeZ(s) ==
    {p \in 1..(Len(s) - 1) :
        /\ s[p] = " "
        /\ s[p + 1] = "z"
        /\ \/ p + 1 = Len(s)
           \/ s[p + 2] \in ListedPunctuation \cup {" "}
           \/ (p + 2 = Len(s) /\ s[p + 2] = "\n")}

NineTiSites(s) ==
    {p \in 1..Len(s) :
        /\ Occurs(s, p, <<"t", "i">>)
        /\ Occurs(s, p - 5, <<"n", STRESS, "a", "small_i", "n">>)
        /\ (p + 2 > Len(s) \/ s[p + 2] # LONG)}

\* C4: the nine-ti rule rewrites "ti" to "di" on the instance built for code
\* a, exactly where "ti" follows NINE and is not followed by the length
\* marker; on the instances built for b and z the rule does nothing, and what
\* they return is rules 1-4 followed by trimming.
C4_DialectGating ==
    [][/\ (stage = "trailing_z" /\ stage' = "language_rules") =>
            /\ code = "a" =>
                  ps' = [i \in 1..Len(ps) |->
                            IF i \in NineTiSites(ps) THEN "d" ELSE ps[i]]
            /\ code \in {"b", "z"} => ps' = ps
       /\ (stage' = "returned" /\ code \in {"b", "z"}) =>
            ps' = Strip(TrailingZ(BoundaryInsertion(SymbolSubs(KnownWords(
                      FirstOrEmpty(raw))))))]_vars

\* on the instance for code a, "ti" after NINE becomes "di"
C4_Witness ==
    /\ stage = "language_rules"
    /\ code = "a"
    /\ raw = << NINE \o <<"t", "i", ".">> >>
    /\ ps = NINE \o <<"d", "i", ".">>

BoundarySites(s) ==
    {p \in 2..Len(s) :
        /\ Occurs(s, p, <<"h", STRESS, "turned_v", "n", "d", TURNED_R, "small_i", "d">>)
        /\ s[p - 1] \in LowercaseAZ \cup {TURNED_R, LONG}}

\* C6: the boundary rule inserts one space in front of every HUNDRED whose
\* preceding character is a lowercase letter, turned_r or the length marker,
\* and changes nothing else: the output is longer by the number of such
\* places, holds a space at each, and is the input again once they are
\* deleted.
C6_BoundaryInsertion ==
    [][(stage = "symbol_subs" /\ stage' = "boundary") =>
          LET P == BoundarySites(ps)
              Q == {p + Cardinality({q \in P : q < p}) : p \in P}
          IN  /\ Len(ps') = Len(ps) + Cardinality(P)
              /\ \A q \in Q : ps'[q] = " "
              /\ Without(ps', Q) = ps]_vars

\* both words get their space: one after the length marker, one after "d"
C6_Witness ==
    /\ stage = "boundary"
    /\ raw = << <<LONG>> \o HUNDRED \o HUNDRED >>
    /\ ps = <<LONG, " ">> \o HUNDRED \o <<" ">> \o HUNDRED

\* C9: what phonemize returns has no leading and no trailing whitespace.
C9_NoOuterWhitespace ==
    stage = "returned" =>
        \/ ps = <<>>
        \/ ps[1] \notin Whitespace /\ ps[Len(ps)] \notin Whitespace

C9_Witness ==
    /\ stage = "returned"
    /\ raw = << <<"\n", "a", " ">> >>
    /\ ps = <<"a">>

\* C10: from the remap on the transcription holds no 'r', and the returned
\* transcription holds one turned_r for every 'r' and every turned_r of the
\* raw transcription.
C10_NoPlainRhotic ==
    /\ stage \in {"symbol_subs", "boundary", "trailing_z", "language_rules",
                  "backend_strip", "returned"} => Count(ps, "r") = 0
    /\ stage = "returned" =>
          Count(ps, TURNED_R) =
              Count(FirstOrEmpty(raw), "r") + Count(FirstOrEmpty(raw), TURNED_R)

C10_Witness ==
    /\ stage = "returned"
    /\ raw = << <<"r">> \o HUNDRED \o <<"r">> >>
    /\ ps = <<TURNED_R, " ">> \o HUNDRED \o <<TURNED_R>>

====
